---------------------------- MODULE Spec2Model ----------------------------
(***************************************************************************)
(* State-machine model of src/server.js: the WhatsApp connection manager   *)
(* (startWhatsApp and its 'connection.update' handler), the reconnect      *)
(* timers, the two send endpoints (POST /send-message, POST /test) and    *)
(* the three read endpoints (GET /, GET /status, GET /qr).                 *)
(*                                                                         *)
(* The Baileys socket, the credential store and the QR renderer are        *)
(* external: the model lets every created socket emit any                  *)
(* 'connection.update' at any time, lets useMultiFileAuthState /           *)
(* makeWASocket succeed or throw, and lets qrcode.toDataURL settle at any  *)
(* later point (the handler is suspended at its await in between).         *)
(*                                                                         *)
(* socks, lastEmitted, loggedOutSeen and noCauseSeen are history           *)
(* variables: they record what the sockets emitted and what the handler    *)
(* has handled, and never guard or feed the program's state.               *)
(* Spec runs the whole program and leaves them alone; ConnSpec runs the    *)
(* connection manager with the history recorded, and without the request   *)
(* handlers, which only read the connection state.                         *)
(*                                                                         *)
(* req follows one request at a time (a send, or a read of /, /status or   *)
(* /qr) from its arrival to its response: the request handlers write no    *)
(* shared state, so requests do                                            *)
(* not affect one another.  A new request is taken up once the one         *)
(* followed is no longer awaiting the provider.                            *)
(***************************************************************************)
EXTENDS Integers, Sequences, FiniteSets, Bags, TLC

\* ------------------------------------------------------------- bounds --
\* Most startWhatsApp invocations of one run (the first one included).
MaxStarts == 3
\* Most 'connection.update' handlers suspended at `await qrcode.toDataURL`.
MaxSuspended == 1

\* ---------------------------------------------------------- constants --
\* DisconnectReason.loggedOut of @whiskeysockets/baileys.
loggedOut == 401
\* cleanPhone.length < 10
MinPhoneDigits == 10

VARIABLES
  AUTO_RECONNECT,  \* process.env.AUTO_RECONNECT !== 'false'
  running,         \* the process has not exited
  sock,            \* the global socket handle: 0 is null, else a socket id
  qrString,        \* '' is <<>>, else the rendered data URL
  isConnected,
  starting,        \* startWhatsApp calls awaiting useMultiFileAuthState
  timersClose,     \* pending setTimeout callbacks set by the close handler
  timersCatch,     \* pending setTimeout callbacks set by startWhatsApp's catch
  suspended,       \* connection.update handlers awaiting qrcode.toDataURL
  socks,           \* per created socket, the last 'open'/'close' it emitted:
                   \* "none", "open", "close", or "reopened" for an 'open'
                   \* emitted after a 'close'
  lastEmitted,     \* the last 'open'/'close' any socket emitted
  nClose,          \* retryable 'close' events emitted so far
  nStartClose,     \* startWhatsApp invocations made by close-handler timers
  nStartCatch,     \* startWhatsApp invocations made by catch timers
  loggedOutSeen,   \* a 'close' with reason loggedOut has been handled
  noCauseSeen,     \* a 'close' with no status code has been handled
  req              \* the send request under observation and what became of it

vars == <<AUTO_RECONNECT, running, sock, qrString, isConnected, starting,
          timersClose, timersCatch, suspended, socks, lastEmitted, nClose,
          nStartClose, nStartCatch, loggedOutSeen, noCauseSeen, req>>

\* The connection manager's state and counters.
connVars == <<AUTO_RECONNECT, running, sock, qrString, isConnected, starting,
              timersClose, timersCatch, suspended, nClose, nStartClose,
              nStartCatch>>

\* The history variables.
histVars == <<socks, lastEmitted, loggedOutSeen, noCauseSeen>>

\* ------------------------------------------------------------- inputs --
\* update.connection: "none" stands for undefined and for every value the
\* handler does not test ('connecting').
Connections == {"none", "open", "close"}
\* (lastDisconnect?.error)?.output?.statusCode: <<>> is undefined.
\* 408 (timedOut) stands for the retryable codes.
StatusCodes == {<<>>, <<loggedOut>>, <<408>>}
\* update.qr: 0 is undefined, else a pairing code.
QrValues == {0, 1}
\* The updates a socket may emit. The handler reads lastDisconnect only in
\* its 'close' block, so the other updates carry none.
Updates ==
  {u \in [connection : Connections, statusCode : StatusCodes, qr : QrValues] :
     u.connection # "close" => u.statusCode = <<>>}

\* Characters of a phone string, as one-character strings.
Digits == {"0", "1", "2", "3", "4", "5", "6", "7", "8", "9"}
\* req.body.phone: <<>> is a missing or empty phone.
Phones ==
  { <<>>,
    <<"+","9","1"," ","9","9","9","9","9","-","9","9","9","9","9">>,
    <<"1","2","3","4","5"," ","6","7","8","9">>,
    <<"1","2","3","4","5","6","7","8","9","0">> }
\* req.body.message: "" is a missing or empty message.
Messages == {"", "Hello World"}
\* What sock.sendMessage may do: resolve with the sent message, or fail.
Outcomes == {"message", "rejected"}

\* const testPhone = req.body.phone || '919999999999'
DefaultTestPhone == <<"9","1","9","9","9","9","9","9","9","9","9","9">>
\* const testMessage = req.body.message || '... Test message ...'
DefaultTestMessage == "Test message from WhatsApp API"

\* result.key.id of the message the provider returns.
ProviderMessageId == "3EB0C767D26A1B2E4F51"
\* error.message of the error the provider raises.
ProviderError == "Connection Closed"

\* No request observed yet. calls counts the sock.sendMessage calls made for
\* the request, responses the responses sent, outcome is what the provider
\* call came to; connected and qrReady are what a status read returned.
NoRequest ==
  [path |-> "none", phone |-> <<>>, message |-> "", wasConnected |-> FALSE,
   status |-> 0, error |-> "", called |-> FALSE, jid |-> <<>>, text |-> "",
   messageId |-> "", calls |-> 0, responses |-> 0, outcome |-> "none",
   connected |-> FALSE, qrReady |-> FALSE, body |-> ""]

\* Replace without the g flag: only the first non-digit is dropped.
RECURSIVE ReplaceFirst(_)
ReplaceFirst(str) ==
  IF str = <<>> THEN <<>>
  ELSE IF Head(str) \in Digits THEN <<Head(str)>> \o ReplaceFirst(Tail(str))
  ELSE Tail(str)

\* phone.replace(/[^0-9]/g, ''): the string scanned left to right, every
\* character that is not a digit dropped.
RECURSIVE Replace(_)
Replace(str) ==
  IF str = <<>> THEN <<>>
  ELSE (IF Head(str) \in Digits THEN <<Head(str)>> ELSE <<>>) \o Replace(Tail(str))

\* `${cleanPhone}@s.whatsapp.net`
WhatsappNumber(cleanPhone) == cleanPhone \o <<"@s.whatsapp.net">>

\* MissingInput without the test of message.
MissingInputPhoneOnly(phone, message) == phone = <<>>

\* if (!phone || !message)
MissingInput(phone, message) == phone = <<>> \/ message = ""

\* NotConnected without the test of isConnected.
NotConnectedSockOnly == sock = 0

\* if (!sock || !isConnected)
NotConnected == sock = 0 \/ ~isConnected

\* if (cleanPhone.length < 10)
TooShort(cleanPhone) == Len(cleanPhone) < MinPhoneDigits

\* qrcode.toDataURL(qr)
ToDataURL(qr) == <<"data:image/png;base64", qr>>

\* startWhatsApp invocations so far.
started == 1 + nStartClose + nStartCatch

\* Most startWhatsApp invocations the events so far can lead to. The
\* sockets stop emitting retryable closes, and startWhatsApp stops throwing,
\* when it reaches MaxStarts, so a timer that was set can always fire.
Budget == 1 + nClose + timersCatch + nStartCatch

\* ShouldReconnect with an absent status code taken for a logout.
ShouldReconnectNoCause(statusCode) == statusCode \notin {<<>>, <<loggedOut>>}

\* const shouldReconnect = statusCode !== DisconnectReason.loggedOut
ShouldReconnect(statusCode) == statusCode # <<loggedOut>>

Init ==
  /\ AUTO_RECONNECT \in BOOLEAN
  /\ running = TRUE
  /\ sock = 0
  /\ qrString = <<>>
  /\ isConnected = FALSE
  /\ starting = 1
  /\ timersClose = 0
  /\ timersCatch = 0
  /\ suspended = EmptyBag
  /\ socks = <<>>
  /\ lastEmitted = "none"
  /\ nClose = 0
  /\ nStartClose = 0
  /\ nStartCatch = 0
  /\ loggedOutSeen = FALSE
  /\ noCauseSeen = FALSE
  /\ req = NoRequest

\* The handler's `if (connection === 'open')` and `if (connection ===
\* 'close')` blocks, run with qrString already holding qs.
ApplyConnection(connection, statusCode, qs) ==
  /\ isConnected' = CASE connection = "open" -> TRUE
                      [] connection = "close" -> FALSE
                      [] OTHER -> isConnected
  /\ qrString' = IF connection = "open" THEN <<>> ELSE qs
  /\ timersClose' = IF /\ connection = "close"
                       /\ ShouldReconnect(statusCode)
                       /\ AUTO_RECONNECT
                    THEN timersClose + 1 ELSE timersClose

\* Socket s emits 'connection.update' u. Without qr the handler runs to its
\* end; with qr it suspends at `await qrcode.toDataURL(qr)`. sock holds the
\* id of the newest socket, so the sockets created so far are 1..sock.
ConnectionUpdate(s, u) ==
  /\ running
  /\ s \in 1..sock
  /\ (u.connection = "close" /\ u.statusCode # <<loggedOut>>) => Budget < MaxStarts
  /\ nClose' = IF u.connection = "close" /\ u.statusCode # <<loggedOut>>
               THEN nClose + 1 ELSE nClose
  /\ IF u.qr # 0
     THEN /\ BagCardinality(suspended) < MaxSuspended
          /\ suspended' = suspended (+) SetToBag({u})
          /\ UNCHANGED <<isConnected, qrString, timersClose>>
     ELSE /\ ApplyConnection(u.connection, u.statusCode, qrString)
          /\ UNCHANGED suspended
  /\ UNCHANGED <<req, AUTO_RECONNECT, running, sock, starting, timersCatch,
                 nStartClose, nStartCatch>>

\* qrcode.toDataURL settles for a suspended handler of update u, which
\* resumes: it stores the data URL (or logs the failure) and runs the
\* open/close blocks.
RenderDone(u, ok) ==
  /\ running
  /\ BagIn(u, suspended)
  /\ ApplyConnection(u.connection, u.statusCode,
                     IF ok THEN ToDataURL(u.qr) ELSE qrString)
  /\ suspended' = suspended (-) SetToBag({u})
  /\ UNCHANGED <<req, AUTO_RECONNECT, running, sock, starting, timersCatch,
                 nClose, nStartClose, nStartCatch>>

\* useMultiFileAuthState resolves and makeWASocket returns: the new socket
\* becomes the global sock and the handlers are registered on it.
StartResolve ==
  /\ running
  /\ starting > 0
  /\ starting' = starting - 1
  /\ sock' = sock + 1
  /\ UNCHANGED <<req, AUTO_RECONNECT, running, qrString, isConnected,
                 timersClose, timersCatch, suspended, nClose, nStartClose,
                 nStartCatch>>

\* useMultiFileAuthState rejects or makeWASocket throws: the catch block
\* sets a reconnect timer.
StartThrow ==
  /\ running
  /\ starting > 0
  /\ Budget < MaxStarts
  /\ starting' = starting - 1
  /\ timersCatch' = timersCatch + 1
  /\ UNCHANGED <<req, AUTO_RECONNECT, running, sock, qrString, isConnected,
                 timersClose, suspended, nClose, nStartClose, nStartCatch>>

\* A close-handler timer fires: () => startWhatsApp().
TimerFireClose ==
  /\ running
  /\ timersClose > 0
  /\ timersClose' = timersClose - 1
  /\ starting' = starting + 1
  /\ nStartClose' = nStartClose + 1
  /\ UNCHANGED <<req, AUTO_RECONNECT, running, sock, qrString, isConnected,
                 timersCatch, suspended, nClose, nStartCatch>>

\* A catch timer fires: () => startWhatsApp().
TimerFireCatch ==
  /\ running
  /\ timersCatch > 0
  /\ timersCatch' = timersCatch - 1
  /\ starting' = starting + 1
  /\ nStartCatch' = nStartCatch + 1
  /\ UNCHANGED <<req, AUTO_RECONNECT, running, sock, qrString, isConnected,
                 timersClose, suspended, nClose, nStartClose>>

\* --------------------------------------------------- history variables --
\* Socket s has emitted u.
RecordEmitted(s, u) ==
  /\ socks' = [socks EXCEPT ![s] =
                 CASE u.connection = "close" -> "close"
                   [] u.connection = "open" ->
                        IF @ \in {"close", "reopened"} THEN "reopened" ELSE "open"
                   [] OTHER -> @]
  /\ lastEmitted' = IF u.connection \in {"open", "close"}
                    THEN u.connection ELSE lastEmitted

\* The handler has run the open/close blocks for u.
RecordHandled(u) ==
  /\ loggedOutSeen' = (loggedOutSeen \/
                         (u.connection = "close" /\ u.statusCode = <<loggedOut>>))
  /\ noCauseSeen' = (noCauseSeen \/
                       (u.connection = "close" /\ u.statusCode = <<>>))

\* ----------------------------------------------------- request handlers --
\* A response sent without calling the provider.
Respond(path, phone, message, status, error) ==
  [NoRequest EXCEPT !.path = path, !.phone = phone, !.message = message,
                    !.wasConnected = (sock # 0 /\ isConnected),
                    !.status = status, !.error = error, !.responses = 1]

\* sock.sendMessage(jid, { text }) called: the handler awaits its result.
Dispatch(path, phone, message, jid, text) ==
  [NoRequest EXCEPT !.path = path, !.phone = phone, !.message = message,
                    !.wasConnected = (sock # 0 /\ isConnected),
                    !.called = TRUE, !.jid = jid, !.text = text, !.calls = 1]

\* Snapshot with qrReady carried over from an earlier read.
SnapshotTorn(r) ==
  [r EXCEPT !.connected = isConnected, !.qrReady = req.qrReady]

\* connected: isConnected, qrReady: !!qrString, read in one synchronous run.
Snapshot(r) ==
  [r EXCEPT !.connected = isConnected, !.qrReady = (qrString # <<>>)]

\* GET /: the health check answers with connected: isConnected.
Health ==
  /\ running
  /\ ~(req.called /\ req.status = 0)
  /\ req' = [NoRequest EXCEPT !.path = "/", !.status = 200,
                              !.responses = 1, !.body = "running",
                              !.connected = isConnected]
  /\ UNCHANGED connVars

\* GET /status answers with the connection snapshot.
Status ==
  /\ running
  /\ ~(req.called /\ req.status = 0)
  /\ req' = Snapshot([NoRequest EXCEPT !.path = "/status", !.status = 200,
                                       !.responses = 1])
  /\ UNCHANGED connVars

\* GET /qr answers 'connected', the QR page, or 'loading'.
Qr ==
  /\ running
  /\ ~(req.called /\ req.status = 0)
  /\ req' = [NoRequest EXCEPT !.path = "/qr", !.status = 200,
                              !.responses = 1,
                              !.body = IF isConnected THEN "connected"
                                       ELSE IF qrString # <<>> THEN "html"
                                       ELSE "loading"]
  /\ UNCHANGED connVars

\* POST /send-message up to its first await (or its early return).
SendMessage(phone, message) ==
  /\ running
  /\ ~(req.called /\ req.status = 0)
  /\ req' =
       IF MissingInput(phone, message)
       THEN Respond("/send-message", phone, message, 400,
                    "Phone number and message are required")
       ELSE IF NotConnected
       THEN Respond("/send-message", phone, message, 503,
                    "WhatsApp not connected. Please scan QR code first.")
       ELSE IF TooShort(Replace(phone))
       THEN Respond("/send-message", phone, message, 400,
                    "Invalid phone number format")
       ELSE Dispatch("/send-message", phone, message,
                     WhatsappNumber(Replace(phone)), message)
  /\ UNCHANGED connVars

\* POST /test up to its first await (or its early return).
Test(phone, message) ==
  /\ running
  /\ ~(req.called /\ req.status = 0)
  /\ LET testPhone == IF phone = <<>> THEN DefaultTestPhone ELSE phone
         testMessage == IF message = "" THEN DefaultTestMessage ELSE message
     IN req' =
          IF ~isConnected
          THEN Respond("/test", phone, message, 503, "WhatsApp not connected")
          ELSE Dispatch("/test", phone, message,
                        WhatsappNumber(Replace(testPhone)), testMessage)
  /\ UNCHANGED connVars

\* Resolved with the failure response sent although the send completed.
ResolvedAsFailure(r) ==
  [r EXCEPT !.outcome = "message", !.status = 500, !.responses = @ + 1]

\* The awaited sock.sendMessage resolved: res.json({ success: true, ... }),
\* with data.messageId = result.key.id on POST /send-message.
Resolved(r) ==
  [r EXCEPT !.outcome = "message", !.status = 200, !.responses = @ + 1,
            !.messageId = IF r.path = "/send-message"
                          THEN ProviderMessageId ELSE ""]

\* Rejected with one more sock.sendMessage call before giving up.
RejectedWithRetry(r) ==
  IF r.calls < 2
  THEN [r EXCEPT !.calls = @ + 1]
  ELSE [r EXCEPT !.outcome = "rejected", !.status = 500,
                 !.error = ProviderError, !.responses = @ + 1]

\* The awaited sock.sendMessage failed: the catch block answers
\* res.status(500).json({ success: false, error: error.message }).
Rejected(r) ==
  [r EXCEPT !.outcome = "rejected", !.status = 500, !.error = ProviderError,
            !.responses = @ + 1]

\* SendSettle with the connection marked down when the send fails.
SendSettleMarksDown(outcome) ==
  /\ running
  /\ req.called /\ req.status = 0
  /\ req' = IF outcome = "message" THEN Resolved(req) ELSE Rejected(req)
  /\ isConnected' = IF outcome = "message" THEN isConnected ELSE FALSE
  /\ UNCHANGED <<AUTO_RECONNECT, running, sock, qrString, starting,
                 timersClose, timersCatch, suspended, nClose, nStartClose,
                 nStartCatch>>

\* sock.sendMessage settles and the awaiting handler answers: 200 with the
\* provider's message id, or the catch block's 500 with the error message.
SendSettle(outcome) ==
  /\ running
  /\ req.called /\ req.status = 0
  /\ req' = IF outcome = "message" THEN Resolved(req) ELSE Rejected(req)
  /\ UNCHANGED connVars

\* SIGINT: sock.end() if there is a socket, then process.exit(0). Nothing
\* runs after the exit: pending timers, suspended handlers and a request
\* awaiting the provider stay as they are.
Sigint ==
  /\ running
  /\ running' = FALSE
  /\ UNCHANGED <<req, AUTO_RECONNECT, sock, qrString, isConnected, starting,
                 timersClose, timersCatch, suspended, nClose, nStartClose,
                 nStartCatch>>

\* The whole program; the history variables are left alone.
Next ==
  \/ \E s \in 1..MaxStarts, u \in Updates :
        ConnectionUpdate(s, u) /\ UNCHANGED histVars
  \/ \E u \in Updates, ok \in BOOLEAN : RenderDone(u, ok) /\ UNCHANGED histVars
  \/ StartResolve /\ UNCHANGED histVars
  \/ StartThrow /\ UNCHANGED histVars
  \/ TimerFireClose /\ UNCHANGED histVars
  \/ TimerFireCatch /\ UNCHANGED histVars
  \/ \E phone \in Phones, message \in Messages :
        SendMessage(phone, message) /\ UNCHANGED histVars
  \/ \E phone \in Phones, message \in Messages :
        Test(phone, message) /\ UNCHANGED histVars
  \/ \E outcome \in Outcomes : SendSettle(outcome) /\ UNCHANGED histVars
  \/ Health /\ UNCHANGED histVars
  \/ Status /\ UNCHANGED histVars
  \/ Qr /\ UNCHANGED histVars
  \/ Sigint /\ UNCHANGED histVars

Spec == Init /\ [][Next]_vars

\* ConnectionUpdate with what the socket emitted recorded.
RecordedUpdate(s, u) ==
  /\ ConnectionUpdate(s, u)
  /\ RecordEmitted(s, u)
  /\ IF u.qr = 0 THEN RecordHandled(u)
                 ELSE UNCHANGED <<loggedOutSeen, noCauseSeen>>

\* RenderDone with the resumed handler's close recorded.
RecordedRender(u, ok) ==
  RenderDone(u, ok) /\ RecordHandled(u) /\ UNCHANGED <<socks, lastEmitted>>

\* StartResolve with the new socket recorded.
RecordedStart ==
  StartResolve /\ socks' = Append(socks, "none")
               /\ UNCHANGED <<lastEmitted, loggedOutSeen, noCauseSeen>>

\* The connection manager with the history recorded.
ConnNext ==
  \/ \E s \in 1..MaxStarts, u \in Updates : RecordedUpdate(s, u)
  \/ \E u \in Updates, ok \in BOOLEAN : RecordedRender(u, ok)
  \/ RecordedStart
  \/ StartThrow /\ UNCHANGED histVars
  \/ TimerFireClose /\ UNCHANGED histVars
  \/ TimerFireCatch /\ UNCHANGED histVars
  \/ Sigint /\ UNCHANGED histVars

ConnSpec == Init /\ [][ConnNext]_vars

\* The timers fire and the QR renderer settles.
FairSpec ==
  /\ ConnSpec
  /\ WF_vars(TimerFireClose /\ UNCHANGED histVars)
  /\ WF_vars(TimerFireCatch /\ UNCHANGED histVars)
  /\ \A u \in Updates : WF_vars(\E ok \in BOOLEAN : RecordedRender(u, ok))

\* ---------------------------------------------------------------- claims --

\* Connection attempts in flight: pending reconnect timers, startWhatsApp
\* calls that have not yet made their socket, and sockets that have never
\* emitted 'close'.
AttemptsInFlight ==
  timersClose + timersCatch + starting +
    Cardinality({s \in 1..Len(socks) : socks[s] \in {"none", "open"}})

\* C1: at most one connection attempt (pending timer, running startWhatsApp
\* or socket not yet closed) is in flight at any time.
C1_AtMostOneAttemptInFlight == AttemptsInFlight <= 1

\* C2: every 'close' whose status code is not loggedOut is followed by a
\* startWhatsApp invocation made by its reconnect timer (the n-th such close
\* by the n-th such invocation), unless the process exits first.
C2_EveryRetryableCloseReconnects ==
  \A n \in 1..MaxStarts : (nClose >= n) ~> (nStartClose >= n \/ ~running)

\* C2 as amended: the same, with AUTO_RECONNECT enabled.
C2_RetryableCloseReconnectsWhenEnabled ==
  \A n \in 1..MaxStarts :
    (AUTO_RECONNECT /\ nClose >= n) ~> (nStartClose >= n \/ ~running)

\* Two retryable closes have each been answered by a reconnect.
C2_Witness == AUTO_RECONNECT /\ nClose >= 2 /\ nStartClose >= 2

\* C3: once a 'close' with reason loggedOut has been handled, no reconnect
\* timer is set and startWhatsApp is not invoked again.
C3_LoggedOutIsTerminal ==
  [][loggedOutSeen =>
       /\ started' = started
       /\ timersClose' + timersCatch' <= timersClose + timersCatch]_vars

\* C4: a send request handled while not connected is answered 503 and makes
\* no provider call, whatever it carries, on both paths.
C4_NotConnectedIs503 ==
  (req.path \in {"/send-message", "/test"} /\ ~req.wasConnected) =>
     (req.status = 503 /\ ~req.called)

\* C4 as amended: a send request handled while not connected makes no
\* provider call; it is answered 503, except that POST /send-message with a
\* missing phone or message is answered 400.
C4_NotConnectedNeverDispatches ==
  (req.path \in {"/send-message", "/test"} /\ ~req.wasConnected) =>
     /\ ~req.called
     /\ req.status = IF /\ req.path = "/send-message"
                        /\ (req.phone = <<>> \/ req.message = "")
                     THEN 400 ELSE 503

\* A complete POST /send-message was refused for want of a connection.
C4_Witness ==
  /\ req.path = "/send-message"
  /\ ~req.wasConnected
  /\ req.phone # <<>> /\ req.message # ""
  /\ req.status = 503

\* C5: whenever isConnected holds (and no handler is suspended), sock is a
\* socket whose last 'open'/'close' event was 'open'.
C5_ConnectedSockIsOpen ==
  (isConnected /\ suspended = EmptyBag) =>
     (sock # 0 /\ socks[sock] \in {"open", "reopened"})

\* C6: qrString is empty whenever isConnected holds.
C6_NoQrWhileConnected == isConnected => qrString = <<>>

\* C7: with no handler suspended, isConnected holds exactly when the last
\* 'open'/'close' emitted was 'open'.
C7_EventsAppliedInOrder ==
  (suspended = EmptyBag /\ lastEmitted # "none") =>
     (isConnected <=> lastEmitted = "open")

\* C8: POST /send-message with an empty or missing message is answered 400
\* and makes no provider call, in every connection state.
C8_EmptyMessageRejected ==
  (req.path = "/send-message" /\ req.message = "") =>
     (req.status = 400 /\ ~req.called)

\* An empty message was refused although the phone was given and the
\* connection was up.
C8_Witness ==
  /\ req.path = "/send-message"
  /\ req.message = ""
  /\ req.phone # <<>>
  /\ req.wasConnected
  /\ req.status = 400

\* The digits of a dispatched recipient id.
DigitCount(jid) == Cardinality({i \in 1..Len(jid) : jid[i] \in Digits})

\* C9: sendMessage is never called with a recipient of fewer than 10 digits
\* or with an empty text, on either path.
C9_DispatchedRecipientIsValid ==
  req.called => (DigitCount(req.jid) >= MinPhoneDigits /\ req.text # "")

\* The recipient string a request stands for (POST /test has a default).
RecipientOf(r) ==
  IF r.path = "/test" /\ r.phone = <<>> THEN DefaultTestPhone ELSE r.phone

\* d holds exactly the digits of str, in the order they have in str.
IsDigitsInOrder(d, str) ==
  LET idx == {i \in 1..Len(str) : str[i] \in Digits} IN
    /\ Len(d) = Cardinality(idx)
    /\ \A i \in idx : d[Cardinality({j \in idx : j <= i})] = str[i]

\* C10: the recipient id dispatched is the recipient's digits in their
\* original order followed by "@s.whatsapp.net"; "+91 99999-99999" is
\* dispatched as "919999999999".
C10_DispatchedIdIsDigitsInOrder ==
  req.called =>
    LET d == SubSeq(req.jid, 1, Len(req.jid) - 1) IN
      /\ Len(req.jid) >= 1
      /\ req.jid[Len(req.jid)] = "@s.whatsapp.net"
      /\ IsDigitsInOrder(d, RecipientOf(req))
      /\ (req.phone = <<"+","9","1"," ","9","9","9","9","9","-","9","9","9","9","9">>
            => d = <<"9","1","9","9","9","9","9","9","9","9","9","9">>)

\* "+91 99999-99999" has been dispatched by POST /send-message.
C10_Witness ==
  /\ req.called
  /\ req.path = "/send-message"
  /\ req.phone = <<"+","9","1"," ","9","9","9","9","9","-","9","9","9","9","9">>

\* C11: when the provider's sendMessage fails, the step that settles the
\* request answers it once, with status 500 and the provider's error message,
\* leaves the process running, and sendMessage was called once, not again.
C11_ProviderFailureIsOneFailureResult ==
  [][(req.called /\ req.status = 0 /\ req' # req) =>
       /\ req'.calls = 1
       /\ running'
       /\ req'.outcome = "rejected" =>
             /\ req'.status = 500
             /\ req'.error = ProviderError
             /\ req'.responses = 1]_vars

\* The provider has failed a dispatched POST /send-message.
C11_Witness ==
  req.path = "/send-message" /\ req.outcome = "rejected" /\ req.status = 500

\* C12: a POST /send-message whose provider call completed is answered 200
\* with the provider's message id, once.
C12_CompletedSendIsSuccess ==
  (req.path = "/send-message" /\ req.outcome = "message") =>
     /\ req.status = 200
     /\ req.messageId = ProviderMessageId
     /\ req.responses = 1

\* The provider has completed a dispatched POST /send-message.
C12_Witness ==
  /\ req.path = "/send-message"
  /\ req.wasConnected
  /\ req.outcome = "message"
  /\ req.messageId = ProviderMessageId

\* A connection attempt ends in this step without a socket: the catch block
\* of startWhatsApp has run.
StartFailed == starting' = starting - 1 /\ sock' = sock

\* C13: a failed connection attempt is handled as a 'close' with a retryable
\* reason is: afterwards isConnected is false, the process runs, and one
\* reconnect timer is set exactly when AUTO_RECONNECT is set.
C13_StartErrorHandledAsRetryableClose ==
  [][StartFailed =>
       /\ ~isConnected'
       /\ running'
       /\ IF AUTO_RECONNECT
          THEN timersClose' + timersCatch' = timersClose + timersCatch + 1
          ELSE timersClose' + timersCatch' = timersClose + timersCatch]_vars

\* The handler runs its close block in this step for a 'close' that carries
\* no status code, emitted by socket s.
HandlesCloseWithoutCause ==
  \E s \in 1..MaxStarts, u \in Updates :
     /\ u.connection = "close" /\ u.statusCode = <<>>
     /\ \/ u.qr = 0 /\ RecordedUpdate(s, u)
        \/ \E ok \in BOOLEAN : RecordedRender(u, ok)

\* C14 as stated: every 'close' without a cause sets a reconnect timer.
C14_CloseWithoutCauseReconnects ==
  [][HandlesCloseWithoutCause => timersClose' = timersClose + 1]_vars

\* C14: with AUTO_RECONNECT set, a 'close' without a cause is handled as a
\* retryable one: it sets one reconnect timer.
C14_CloseWithoutCauseReconnectsWhenEnabled ==
  [][(AUTO_RECONNECT /\ HandlesCloseWithoutCause) =>
       timersClose' = timersClose + 1]_vars

\* The only retryable 'close' emitted so far carried no cause, has been
\* handled, and its reconnect timer is pending.
C14_Witness ==
  /\ AUTO_RECONNECT
  /\ noCauseSeen /\ ~loggedOutSeen
  /\ nClose = 1
  /\ timersClose = 1

\* C15: the process does not exit while a send is in flight (sendMessage
\* called, no response sent yet).
C15_NoExitWithSendInFlight ==
  ~running => ~(req.called /\ req.status = 0)

\* C18: with AUTO_RECONNECT unset, startWhatsApp runs once and no reconnect
\* timer is ever set.
C18_NoReconnectWhenDisabled ==
  ~AUTO_RECONNECT => (started = 1 /\ timersClose + timersCatch = 0)

\* C16: what GET /status (and GET / for connected) returns is the pair
\* (isConnected, qrString non-empty) of the one state the read runs in: the
\* read is a single step, and the connection state is the same before and
\* after it.
C16_StatusReadIsOneSnapshot ==
  [][(req' # req /\ req'.path \in {"/status", "/"}) =>
       /\ req'.connected = isConnected
       /\ req'.path = "/status" => (req'.qrReady <=> qrString # <<>>)
       /\ UNCHANGED <<isConnected, qrString>>]_vars

\* GET /status has answered while a QR code was waiting to be scanned.
C16_Witness ==
  req.path = "/status" /\ req.status = 200 /\ ~req.connected /\ req.qrReady

\* C17: a step of a request handler (one that changes the observed request)
\* leaves isConnected, qrString and sock unchanged.
C17_HandlersLeaveConnectionState ==
  [][req' # req => UNCHANGED <<isConnected, qrString, sock>>]_vars

\* A send has failed at the provider and the connection is still marked up.
C17_Witness ==
  /\ req.path \in {"/send-message", "/test"}
  /\ req.outcome = "rejected"
  /\ isConnected /\ sock # 0


=============================================================================
